---- MODULE Spec2Model ----
\* Model of UCN_XRDataRetriever (Source/CyberNano/XRRetrieval): the two
\* Blueprint-callable fetch operations PullXRHostSnapshot and
\* PullXRCorridorEnvelope, each a single request/response exchange with
\* UCyberNanoRustBridge::SendXRRequest followed by the bCompliant gate and
\* the copy into the caller's output parameter.
EXTENDS Integers, Sequences, FiniteSets, TLC

\* ---------------------------------------------------------------- bounds
MaxIdLen == 1       \* longest HostID / SessionID string
MaxPayload == 1     \* populated payload values are 1..MaxPayload
MaxCalls == 3       \* total number of calls started in one behaviour

\* ------------------------------------------------------------ data model
Callers == {"c1", "c2"}

\* FString values; <<>> is the empty string.
Ids == UNION {[1..n -> {"x"}] : n \in 0..MaxIdLen}

\* A default-constructed FXRHostSnapshot / FXRSessionEnvelope.  The response
\* struct has plain (non-optional) payload members, so a payload the bridge
\* did not populate is seen by the retriever as this value.
DefaultPayload == 0
Payloads == 0..MaxPayload

ECyberNanoXRAction == {"HostSnapshot", "CorridorEnvelope"}

\* FCyberNanoXRRequest Req;  (default-constructed)
DefaultReq == [Action |-> "HostSnapshot", HostId |-> <<>>, SessionId |-> <<>>]

\* FCyberNanoXRResponse Res;  (default-constructed)
DefaultRes == [bCompliant |-> FALSE,
               HostSnapshot |-> DefaultPayload,
               SessionEnvelope |-> DefaultPayload]

\* Every response the bridge may write into Res.
Responses == [bCompliant : BOOLEAN,
              HostSnapshot : Payloads,
              SessionEnvelope : Payloads]

VARIABLES
    pc,           \* per caller: "idle", "send", "gate", "copy", "done"
    fn,           \* per caller: the function being executed
    Req,          \* per caller: local FCyberNanoXRRequest
    Res,          \* per caller: local FCyberNanoXRResponse
    sendOk,       \* per caller: value returned by SendXRRequest
    OutSnapshot,  \* per caller: the FXRHostSnapshot bound to OutSnapshot
    OutEnvelope,  \* per caller: the FXRSessionEnvelope bound to OutEnvelope
    ret,          \* per caller: value returned by the function
    exit,         \* per caller: the return statement taken
    arg,          \* per caller: the HostID / SessionID argument
    out0,         \* per caller: OutSnapshot and OutEnvelope at call entry
    sends,        \* per caller: SendXRRequest invocations in this call
    calls         \* number of calls started so far

vars == <<pc, fn, Req, Res, sendOk, OutSnapshot, OutEnvelope, ret, exit,
          arg, out0, sends, calls>>

Init ==
    /\ pc = [c \in Callers |-> "idle"]
    /\ fn = [c \in Callers |-> "none"]
    /\ Req = [c \in Callers |-> DefaultReq]
    /\ Res = [c \in Callers |-> DefaultRes]
    /\ sendOk = [c \in Callers |-> FALSE]
    /\ OutSnapshot = [c \in Callers |-> DefaultPayload]
    /\ OutEnvelope = [c \in Callers |-> DefaultPayload]
    /\ ret = [c \in Callers |-> FALSE]
    /\ exit = [c \in Callers |-> "none"]
    /\ arg = [c \in Callers |-> <<>>]
    /\ out0 = [c \in Callers |-> [snap |-> DefaultPayload,
                                  env |-> DefaultPayload]]
    /\ sends = [c \in Callers |-> 0]
    /\ calls = 0

\* ------------------------------------------------------------ operations

\* Lines 8-12: build the request and default-construct the response.
HostRequest(HostID) ==
    [DefaultReq EXCEPT !.Action = "HostSnapshot", !.HostId = HostID]

\* Lines 31-35.
CorridorRequest(SessionID) ==
    [DefaultReq EXCEPT !.Action = "CorridorEnvelope", !.SessionId = SessionID]

\* Entry of one call by caller c: locals are constructed, ghosts are reset.
Enter(c, f, id, req) ==
    /\ pc[c] \in {"idle", "done"}
    /\ calls < MaxCalls
    /\ calls' = calls + 1
    /\ pc' = [pc EXCEPT ![c] = "send"]
    /\ fn' = [fn EXCEPT ![c] = f]
    /\ arg' = [arg EXCEPT ![c] = id]
    /\ Req' = [Req EXCEPT ![c] = req]
    /\ Res' = [Res EXCEPT ![c] = DefaultRes]
    /\ sendOk' = [sendOk EXCEPT ![c] = FALSE]
    /\ out0' = [out0 EXCEPT ![c] = [snap |-> OutSnapshot[c],
                                     env |-> OutEnvelope[c]]]
    /\ sends' = [sends EXCEPT ![c] = 0]
    /\ exit' = [exit EXCEPT ![c] = "none"]
    /\ ret' = [ret EXCEPT ![c] = FALSE]
    /\ UNCHANGED <<OutSnapshot, OutEnvelope>>

PullXRHostSnapshot(c) ==
    \E HostID \in Ids :
        Enter(c, "PullXRHostSnapshot", HostID, HostRequest(HostID))

PullXRCorridorEnvelope(c) ==
    \E SessionID \in Ids :
        Enter(c, "PullXRCorridorEnvelope", SessionID,
              CorridorRequest(SessionID))

\* Faulty variant: a failed exchange is attempted a second time.
SendXRRequest_Retry(c) ==
    /\ pc[c] = "send"
    /\ sends' = [sends EXCEPT ![c] = @ + 1]
    /\ \E ok \in BOOLEAN, r \in Responses :
        /\ sendOk' = [sendOk EXCEPT ![c] = ok]
        /\ IF ok
             THEN /\ Res' = [Res EXCEPT ![c] = r]
                  /\ pc' = [pc EXCEPT ![c] = "gate"]
                  /\ UNCHANGED <<ret, exit>>
             ELSE /\ Res' = Res
                  /\ pc' = [pc EXCEPT ![c] = IF sends[c] = 0 THEN "send" ELSE "done"]
                  /\ ret' = [ret EXCEPT ![c] = FALSE]
                  /\ exit' = [exit EXCEPT ![c] = IF sends[c] = 0 THEN "none" ELSE "send_failed"]
    /\ UNCHANGED <<fn, Req, OutSnapshot, OutEnvelope, arg, out0, calls>>

\* Faulty variant: a response obtained by another call for an equal request
\* is reused instead of asking the bridge.
SendXRRequest_Cached(c) ==
    /\ pc[c] = "send"
    /\ IF \E d \in Callers : d # c /\ pc[d] = "done" /\ sendOk[d] /\ Req[d] = Req[c]
         THEN /\ \E d \in Callers :
                    /\ d # c /\ pc[d] = "done" /\ sendOk[d] /\ Req[d] = Req[c]
                    /\ Res' = [Res EXCEPT ![c] = Res[d]]
              /\ sendOk' = [sendOk EXCEPT ![c] = TRUE]
              /\ pc' = [pc EXCEPT ![c] = "gate"]
              /\ UNCHANGED <<ret, exit, sends>>
         ELSE /\ sends' = [sends EXCEPT ![c] = @ + 1]
              /\ \E ok \in BOOLEAN, r \in Responses :
                    /\ sendOk' = [sendOk EXCEPT ![c] = ok]
                    /\ IF ok
                         THEN /\ Res' = [Res EXCEPT ![c] = r]
                              /\ pc' = [pc EXCEPT ![c] = "gate"]
                              /\ UNCHANGED <<ret, exit>>
                         ELSE /\ Res' = Res
                              /\ pc' = [pc EXCEPT ![c] = "done"]
                              /\ ret' = [ret EXCEPT ![c] = FALSE]
                              /\ exit' = [exit EXCEPT ![c] = "send_failed"]
    /\ UNCHANGED <<fn, Req, OutSnapshot, OutEnvelope, arg, out0, calls>>

\* Lines 13-16 / 36-39: the single call of the bridge.  The bridge is an
\* external collaborator: it may fail, or succeed with any response.
SendXRRequest(c) ==
    /\ pc[c] = "send"
    /\ sends' = [sends EXCEPT ![c] = @ + 1]
    /\ \E ok \in BOOLEAN, r \in Responses :
        /\ sendOk' = [sendOk EXCEPT ![c] = ok]
        /\ IF ok
             THEN /\ Res' = [Res EXCEPT ![c] = r]
                  /\ pc' = [pc EXCEPT ![c] = "gate"]
                  /\ UNCHANGED <<ret, exit>>
             ELSE /\ Res' = Res
                  /\ pc' = [pc EXCEPT ![c] = "done"]
                  /\ ret' = [ret EXCEPT ![c] = FALSE]
                  /\ exit' = [exit EXCEPT ![c] = "send_failed"]
    /\ UNCHANGED <<fn, Req, OutSnapshot, OutEnvelope, arg, out0, calls>>

\* Faulty variant: a populated payload overrides the compliance flag.
Blocked_PayloadOverrides(res) ==
    /\ ~res.bCompliant
    /\ res.HostSnapshot = DefaultPayload
    /\ res.SessionEnvelope = DefaultPayload

\* if (!Res.bCompliant)
Blocked(res) == ~res.bCompliant

\* Faulty variant: the payload is copied out before the flag is tested.
ComplianceGate_CopyFirst(c) ==
    /\ pc[c] = "gate"
    /\ IF fn[c] = "PullXRHostSnapshot"
         THEN /\ OutSnapshot' = [OutSnapshot EXCEPT ![c] = Res[c].HostSnapshot]
              /\ UNCHANGED OutEnvelope
         ELSE /\ OutEnvelope' = [OutEnvelope EXCEPT ![c] = Res[c].SessionEnvelope]
              /\ UNCHANGED OutSnapshot
    /\ IF Blocked(Res[c])
         THEN /\ pc' = [pc EXCEPT ![c] = "done"]
              /\ ret' = [ret EXCEPT ![c] = FALSE]
              /\ exit' = [exit EXCEPT ![c] = "not_compliant"]
         ELSE /\ pc' = [pc EXCEPT ![c] = "copy"]
              /\ UNCHANGED <<ret, exit>>
    /\ UNCHANGED <<fn, Req, Res, sendOk, arg, out0, sends, calls>>

\* Lines 17-21 / 40-43: the compliance gate.
ComplianceGate(c) ==
    /\ pc[c] = "gate"
    /\ IF Blocked(Res[c])
         THEN /\ pc' = [pc EXCEPT ![c] = "done"]
              /\ ret' = [ret EXCEPT ![c] = FALSE]
              /\ exit' = [exit EXCEPT ![c] = "not_compliant"]
         ELSE /\ pc' = [pc EXCEPT ![c] = "copy"]
              /\ UNCHANGED <<ret, exit>>
    /\ UNCHANGED <<fn, Req, Res, sendOk, OutSnapshot, OutEnvelope, arg, out0,
                   sends, calls>>

\* Faulty variant: both functions read the session envelope member.
CopiedField_Crossed(f, res) == res.SessionEnvelope

\* The response member each function copies out (lines 23 and 45).
CopiedField(f, res) ==
    IF f = "PullXRHostSnapshot" THEN res.HostSnapshot ELSE res.SessionEnvelope

\* Lines 23-24 / 45-46: copy the payload out and return true.
CopyOut(c) ==
    /\ pc[c] = "copy"
    /\ IF fn[c] = "PullXRHostSnapshot"
         THEN /\ OutSnapshot' = [OutSnapshot EXCEPT ![c] = CopiedField(fn[c], Res[c])]
              /\ UNCHANGED OutEnvelope
         ELSE /\ OutEnvelope' = [OutEnvelope EXCEPT ![c] = CopiedField(fn[c], Res[c])]
              /\ UNCHANGED OutSnapshot
    /\ pc' = [pc EXCEPT ![c] = "done"]
    /\ ret' = [ret EXCEPT ![c] = TRUE]
    /\ exit' = [exit EXCEPT ![c] = "copied"]
    /\ UNCHANGED <<fn, Req, Res, sendOk, arg, out0, sends, calls>>

Next ==
    \E c \in Callers :
        \/ PullXRHostSnapshot(c)
        \/ PullXRCorridorEnvelope(c)
        \/ SendXRRequest(c)
        \/ ComplianceGate(c)
        \/ CopyOut(c)

Spec == Init /\ [][Next]_vars

\* The bridge call is synchronous and the remaining steps are straight-line
\* code, so a started call always runs on.
FairSpec ==
    /\ Spec
    /\ \A c \in Callers :
        /\ WF_vars(SendXRRequest(c))
        /\ WF_vars(ComplianceGate(c))
        /\ WF_vars(CopyOut(c))

\* ------------------------------------------------- vocabulary of the claims
Done(c) == pc[c] = "done"
IsHost(c) == fn[c] = "PullXRHostSnapshot"
IsCorridor(c) == fn[c] = "PullXRCorridorEnvelope"

\* The payload member that belongs to the action of the request.
MatchingPayload(c) ==
    IF Req[c].Action = "HostSnapshot"
      THEN Res[c].HostSnapshot ELSE Res[c].SessionEnvelope

\* The payload member that belongs to the other action.
OtherPayload(c) ==
    IF Req[c].Action = "HostSnapshot"
      THEN Res[c].SessionEnvelope ELSE Res[c].HostSnapshot

MatchingPresent(c) == MatchingPayload(c) # DefaultPayload

\* Both output parameters of caller c are as they were at call entry.
OutputsUntouched(c) ==
    /\ OutSnapshot[c] = out0[c].snap
    /\ OutEnvelope[c] = out0[c].env

\* Data reached the caller: success was reported or an output was written.
Surfaced(c) == Done(c) /\ (ret[c] \/ exit[c] = "copied" \/ ~OutputsUntouched(c))

\* --------------------------------------------------------------- claims

\* C1: data is surfaced to the caller only if the transport succeeded, the
\* response is compliant and the payload matching the requested action is
\* present.
C1_ComplianceGateInvariant ==
    \A c \in Callers :
        Surfaced(c) => sendOk[c] /\ Res[c].bCompliant /\ MatchingPresent(c)

\* C2: whenever the transport delivers a response with compliant = false,
\* the call leaves through the non-compliance return with a failure result
\* and with both outputs untouched, whatever the payload members contain.
C2_NonCompliantBlocked ==
    \A c \in Callers :
        (Done(c) /\ sendOk[c] /\ ~Res[c].bCompliant)
            => /\ exit[c] = "not_compliant"
               /\ ret[c] = FALSE
               /\ OutputsUntouched(c)

C2_Witness ==
    \E c \in Callers :
        /\ Done(c) /\ IsHost(c) /\ sendOk[c] /\ ~Res[c].bCompliant
        /\ Res[c].HostSnapshot # DefaultPayload
        /\ Res[c].HostSnapshot # OutSnapshot[c]

\* C3: a call with an empty identifier never invokes the transport.
C3_EmptyIdRejected ==
    \A c \in Callers :
        (fn[c] # "none" /\ arg[c] = <<>>) => sends[c] = 0 /\ ~ret[c]

\* C4: a compliant response whose matching payload is absent never makes
\* the call succeed or write an output.
C4_AbsentPayloadRejected ==
    \A c \in Callers :
        (Done(c) /\ sendOk[c] /\ Res[c].bCompliant /\ ~MatchingPresent(c))
            => ~ret[c] /\ exit[c] # "copied"

\* C5: for a non-empty identifier, a compliant response with the matching
\* payload present makes the call succeed, and the value handed to the
\* caller is exactly that payload.
C5_ExactPayloadReturned ==
    \A c \in Callers :
        (Done(c) /\ Len(arg[c]) > 0 /\ sendOk[c] /\ Res[c].bCompliant
                 /\ MatchingPresent(c))
            => /\ ret[c] = TRUE
               /\ IsHost(c) => OutSnapshot[c] = Res[c].HostSnapshot
               /\ IsCorridor(c) => OutEnvelope[c] = Res[c].SessionEnvelope

C5_Witness ==
    \E c \in Callers :
        /\ Done(c) /\ IsHost(c) /\ Len(arg[c]) > 0 /\ ret[c]
        /\ Res[c].HostSnapshot # DefaultPayload
        /\ Res[c].HostSnapshot # Res[c].SessionEnvelope
        /\ OutSnapshot[c] # out0[c].snap

\* C6: the request of each function carries its own action, and a compliant
\* response that populates only the other action's payload never makes the
\* call succeed.
C6_PairingNeverCrossed ==
    \A c \in Callers :
        /\ IsHost(c) => Req[c].Action = "HostSnapshot"
        /\ IsCorridor(c) => Req[c].Action = "CorridorEnvelope"
        /\ (Done(c) /\ sendOk[c] /\ Res[c].bCompliant
                    /\ ~MatchingPresent(c) /\ OtherPayload(c) # DefaultPayload)
               => ~ret[c]

\* C7: a call that failed in the transport and a call that was refused as
\* non-compliant hand different values to their callers.
C7_FailureCausesDistinct ==
    \A c, d \in Callers :
        (Done(c) /\ Done(d) /\ exit[c] = "send_failed"
                 /\ exit[d] = "not_compliant")
            => <<ret[c], OutputsUntouched(c)>> # <<ret[d], OutputsUntouched(d)>>

\* C8: within one call the transport is invoked at most once, a finished
\* call has made exactly that one exchange, and every started call
\* finishes.
C8_NoRetry ==
    /\ [](\A c \in Callers : sends[c] <= 1 /\ (Done(c) => sends[c] = 1))
    /\ \A c \in Callers : (pc[c] = "send") ~> Done(c)

C8_Witness ==
    \E c \in Callers :
        Done(c) /\ exit[c] = "send_failed" /\ sends[c] = 1 /\ calls = MaxCalls

\* C9: the result of a finished call is determined by its own function, its
\* own transport outcome and its own outputs at entry, each call has made
\* its own exchange, and steps of other calls leave it unchanged.
C9_NoCrossCallState ==
    \A c \in Callers :
        Done(c) =>
            /\ sends[c] = 1
            /\ ret[c] = (sendOk[c] /\ Res[c].bCompliant)
            /\ OutSnapshot[c] = IF ret[c] /\ IsHost(c)
                                  THEN Res[c].HostSnapshot ELSE out0[c].snap
            /\ OutEnvelope[c] = IF ret[c] /\ IsCorridor(c)
                                  THEN Res[c].SessionEnvelope ELSE out0[c].env

\* Two finished calls with the same request and different results.
C9_Witness ==
    \E c, d \in Callers :
        /\ c # d /\ Done(c) /\ Done(d)
        /\ Req[c] = Req[d]
        /\ ret[c] /\ ~ret[d]
        /\ sends[c] = 1 /\ sends[d] = 1

\* C10: when a call returns false, both output parameters are exactly as
\* they were before the call.
C10_FailureLeavesOutputs ==
    \A c \in Callers : (Done(c) /\ ~ret[c]) => OutputsUntouched(c)

\* A failed call of a caller whose output holds an earlier result that
\* differs from the payload of the refused response.
C10_Witness ==
    \E c \in Callers :
        /\ Done(c) /\ IsHost(c) /\ exit[c] = "not_compliant"
        /\ out0[c].snap # DefaultPayload
        /\ Res[c].HostSnapshot # out0[c].snap

====
